---- MODULE Spec2Model ----
(***************************************************************************)
(* Model of thought_database/init_db.py: the idempotent initializer of    *)
(* the SQLite file myapp.db.  One action per statement of main(); the     *)
(* database file (disk) and the connection's view of it are separate, so  *)
(* that what is durable and what is only pending in the connection's      *)
(* transaction can be told apart.                                         *)
(***************************************************************************)
EXTENDS Integers, Sequences, FiniteSets, TLC

VARIABLES
    disk,          \* the database file: [file, db], db = committed content
    view,          \* the connection of main(): [open, db], db = its view
    inTxn,         \* the connection has an open (implicit) transaction
    pc,            \* position of main()
    pending,       \* an exception raised in the try block is propagating
    raised,        \* the statements of this run that raised
    out,           \* the lines printed by this run
    table_count,   \* main's local table_count (Unset before it is assigned)
    record_count,  \* main's local record_count
    connFile,      \* db_connection.txt: [path, mtime], the path written in it
    envFile,       \* db_visualizer/sqlite.env: [path, mtime]
    vizDir,        \* what the name db_visualizer is in the working directory
    canOpen,       \* sqlite3.connect(DB_NAME) can open or create the file
    faultsLeft,    \* environment faults (I/O error, lock) still to happen
    run,           \* number of the current invocation of the script
    prev           \* how this run started: the outcome of the run before it,
                   \* the content of the file, the faults left, and whether
                   \* the run before it could open the file and went
                   \* without an environment fault

vars == <<disk, view, inTxn, pc, pending, raised, out, table_count,
          record_count, connFile, envFile, vizDir, canOpen, faultsLeft,
          run, prev>>

----------------------------------------------------------------------------
\* Bounds of the model

MaxRuns == 2
MaxFaults == 1
MaxPriorRows == 1

----------------------------------------------------------------------------
\* Program constants

DB_NAME == "myapp.db"
DbAbsPath == "/cwd/myapp.db"
Unset == -1

TableNames == {"thoughts", "app_info", "users"}
IndexNames == {"idx_thoughts_created_at", "idx_thoughts_user_created"}

SeedRows ==
    << [id |-> 1, key |-> "project_name", value |-> "thought_database"],
       [id |-> 2, key |-> "version",      value |-> "0.1.0"],
       [id |-> 3, key |-> "author",       value |-> "John Doe"],
       [id |-> 4, key |-> "description",  value |-> ""] >>

SeedKeys == {SeedRows[i].key : i \in 1..4}

\* Column definitions of a table: "none" (no such table), "std" (as the
\* script creates it), "extra" (drifted: one more column), "nocol" (drifted:
\* thoughts without its created_at column).
EmptyDb ==
    [cols |-> [t \in TableNames |-> "none"], idx |-> {},
     app_info |-> {}, thoughts |-> {}, users |-> {}]

Closed == [open |-> FALSE, db |-> EmptyDb]

\* A side file that was never written; mtime is the run that wrote the file.
NoFile == [path |-> "none", mtime |-> 0]

FileWritten(path, now) == [path |-> path, mtime |-> now]

----------------------------------------------------------------------------
\* SQL statements, as SQLite executes them

\* Faulty variant: DROP TABLE IF EXISTS followed by CREATE TABLE.
DropAndCreateTable(db, t) == [db EXCEPT !.cols[t] = "std", ![t] = {}]

CreateTableIfNotExists(db, t) ==
    IF db.cols[t] # "none" THEN db ELSE [db EXCEPT !.cols[t] = "std"]

\* CREATE INDEX ... ON thoughts (datetime(created_at)) needs the table and
\* the column; with IF NOT EXISTS an index of that name is not an error.
\* Faulty variant: CREATE INDEX without IF NOT EXISTS raises on an existing index.
CreateIndexRaisesIfPresent(db, i) ==
    db.cols["thoughts"] \in {"none", "nocol"} \/ i \in db.idx

CreateIndexRaises(db, i) ==
    db.cols["thoughts"] \in {"none", "nocol"}

\* Faulty variant: the second index is created under the name of the first.
CreateIndexOneName(db, i) == [db EXCEPT !.idx = @ \cup {"idx_thoughts_created_at"}]

CreateIndexIfNotExists(db, i) ==
    IF i \in db.idx THEN db ELSE [db EXCEPT !.idx = @ \cup {i}]

\* INSERT OR REPLACE: the rows in conflict on the primary key (id) or on the
\* UNIQUE key column are deleted, then the row is inserted; created_at takes
\* its default, the current time.
\* Faulty variant: INSERT OR IGNORE, which keeps the rows in conflict.
InsertOrIgnore(rows, r, now) ==
    IF \E x \in rows : x.id = r.id \/ x.key = r.key
       THEN rows
       ELSE rows \cup {[id |-> r.id, key |-> r.key, value |-> r.value,
                        created_at |-> now]}

InsertOrReplace(rows, r, now) ==
    {x \in rows : x.id # r.id /\ x.key # r.key}
        \cup {[id |-> r.id, key |-> r.key, value |-> r.value, created_at |-> now]}

VerifyThoughtsTable(db) == db.cols["thoughts"] # "none"

CountTables(db) == Cardinality({t \in TableNames : db.cols[t] # "none"})

CountAppInfoRaises(db) == db.cols["app_info"] = "none"

CountAppInfo(db) == Cardinality(db.app_info)

\* Python's sqlite3 (legacy transaction control) opens a transaction before
\* INSERT/UPDATE/DELETE/REPLACE only; any other statement runs in autocommit
\* mode when no transaction is open.
\* Faulty variant: a connection in autocommit mode (isolation_level = None).
NeverBeginsTransaction(kind) == FALSE

BeginsTransaction(kind) == kind = "dml"

----------------------------------------------------------------------------
\* The states the script may find when it starts

\* Rows an earlier writer may have left in app_info: ids within 1..4, the key
\* of the row's own seed, the key of the next seed, or a foreign key.
PriorRowCandidates ==
    {[id |-> i, key |-> k, value |-> "edited", created_at |-> 0] :
        i \in 1..4, k \in {"other"}} \cup
    UNION {{[id |-> i, key |-> SeedRows[j].key, value |-> "edited", created_at |-> 0] :
               j \in {i, (i % 4) + 1}} : i \in 1..4}

IsPriorAppInfo(S) ==
    /\ Cardinality(S) <= MaxPriorRows
    /\ \A x, y \in S : (x.id = y.id \/ x.key = y.key) => x = y

PriorAppInfo == {S \in SUBSET PriorRowCandidates : IsPriorAppInfo(S)}

PriorDbs ==
    {[cols |-> [t \in TableNames |->
                   IF t = "thoughts" THEN th ELSE IF t = "app_info" THEN ai ELSE us],
      idx |-> ix, app_info |-> rows,
      thoughts |-> IF th = "none" THEN {} ELSE {"t1"},
      users |-> IF us = "none" THEN {} ELSE {"u1"}] :
        th \in {"none", "std", "nocol"}, ai \in {"none", "std", "extra"},
        us \in {"none", "std", "extra"},
        ix \in SUBSET IndexNames, rows \in PriorAppInfo}

IsDb(db) ==
    /\ (db.cols["thoughts"] # "std" => db.idx = {})
    /\ (db.cols["app_info"] = "none" => db.app_info = {})

PriorDisks ==
    {[file |-> "absent", db |-> EmptyDb], [file |-> "garbage", db |-> EmptyDb]}
        \cup {[file |-> "valid", db |-> d] : d \in {x \in PriorDbs : IsDb(x)}}

Init ==
    /\ disk \in PriorDisks
    /\ canOpen \in BOOLEAN
    /\ vizDir = "absent"
    /\ view = Closed
    /\ inTxn = FALSE
    /\ pc = "start"
    /\ pending = FALSE
    /\ raised = {}
    /\ out = <<>>
    /\ table_count = Unset
    /\ record_count = Unset
    /\ connFile = NoFile
    /\ envFile = NoFile
    /\ faultsLeft = MaxFaults
    /\ run = 1
    /\ prev = [outcome |-> "none", db |-> disk.db, faults |-> MaxFaults,
               clean |-> TRUE]

----------------------------------------------------------------------------
\* Helpers of the actions

\* An environment fault (I/O error, lock held by another process, full disk)
\* may hit a statement as long as the budget of faults is not used up.
FaultChoices == IF faultsLeft > 0 THEN BOOLEAN ELSE {FALSE}

Spend(fault) == IF fault THEN faultsLeft - 1 ELSE faultsLeft

\* A statement that reads the schema raises DatabaseError on a file that is
\* not a database.
SqlRaises(fault, intrinsic) == fault \/ disk.file = "garbage" \/ intrinsic

Emit(lines) == out' = out \o lines

\* A statement of the try block raised: the finally block runs next, and the
\* exception goes on propagating after it.
RaiseInTry(label, fault) ==
    /\ pending' = TRUE
    /\ raised' = raised \cup {label}
    /\ faultsLeft' = Spend(fault)
    /\ pc' = "count_tables"

\* A statement executed: its effect is in the connection's view, and in the
\* file as well unless a transaction is (now) open.
Execute(kind, newdb) ==
    /\ view' = [view EXCEPT !.db = newdb]
    /\ inTxn' = (inTxn \/ BeginsTransaction(kind))
    /\ disk' = IF inTxn' THEN disk ELSE [disk EXCEPT !.db = newdb]

----------------------------------------------------------------------------
\* main(), lines 127-140: the check of an existing file

\* _ensure_conn() and SELECT 1 on the existing file; neither PRAGMA
\* foreign_keys nor SELECT 1 reads the file, so only the open can fail
\* by itself.
ExistingCheckRaises(fault) == ~canOpen \/ fault

CheckExisting ==
    /\ pc = "start"
    /\ \E fault \in FaultChoices :
          /\ faultsLeft' = Spend(fault /\ disk.file # "absent")
          /\ Emit(<<"Starting SQLite setup...">> \o
                  (IF disk.file = "absent"
                      THEN <<"Creating new SQLite database...">>
                      ELSE <<"SQLite database already exists">> \o
                           (IF ExistingCheckRaises(fault)
                               THEN <<"Warning: Database exists but may be corrupted">>
                               ELSE <<"Database is accessible and working.">>)))
    /\ pc' = "connect"
    /\ UNCHANGED <<disk, view, inTxn, pending, raised, table_count, record_count,
                   connFile, envFile, vizDir, canOpen, run, prev>>

----------------------------------------------------------------------------
\* main(), line 143: the connection of the run, outside the try block

EnsureConnRaises(fault) == ~canOpen \/ fault

\* Faulty variant: the error of the connection is caught and the run goes on with
\* the side files.
AfterEnsureConnCaught(failed) ==
    IF failed THEN "write_connection_info" ELSE "create_thoughts"

AfterEnsureConn(failed) == IF failed THEN "aborted" ELSE "create_thoughts"

\* sqlite3.connect creates the file when there is none: an empty database.
EnsureConn ==
    /\ pc = "connect"
    /\ \E fault \in FaultChoices :
          /\ faultsLeft' = Spend(fault)
          /\ pc' = AfterEnsureConn(EnsureConnRaises(fault))
          /\ raised' = IF EnsureConnRaises(fault) THEN raised \cup {"connect"} ELSE raised
          /\ IF EnsureConnRaises(fault)
                THEN UNCHANGED <<disk, view>>
                ELSE /\ disk' = IF disk.file = "absent"
                                   THEN [file |-> "valid", db |-> EmptyDb] ELSE disk
                     /\ view' = [open |-> TRUE, db |-> disk'.db]
    /\ UNCHANGED <<inTxn, pending, out, table_count, record_count, connFile,
                   envFile, vizDir, canOpen, run, prev>>

----------------------------------------------------------------------------
\* _init_core_tables, lines 26-67

CreateTable(label, t, next) ==
    /\ pc = label
    /\ \E fault \in FaultChoices :
          IF SqlRaises(fault, FALSE)
             THEN /\ RaiseInTry(label, fault)
                  /\ UNCHANGED <<disk, view, inTxn>>
             ELSE /\ Execute("ddl", CreateTableIfNotExists(view.db, t))
                  /\ pc' = next
                  /\ UNCHANGED <<pending, raised, faultsLeft>>
    /\ UNCHANGED <<out, table_count, record_count, connFile, envFile, vizDir,
                   canOpen, run, prev>>

CreateThoughts == CreateTable("create_thoughts", "thoughts", "create_app_info")

CreateAppInfo == CreateTable("create_app_info", "app_info", "create_users")

CreateUsers == CreateTable("create_users", "users", "create_idx_created_at")

CreateIndex(label, i, next) ==
    /\ pc = label
    /\ \E fault \in FaultChoices :
          IF SqlRaises(fault, CreateIndexRaises(view.db, i))
             THEN /\ RaiseInTry(label, fault)
                  /\ UNCHANGED <<disk, view, inTxn>>
             ELSE /\ Execute("ddl", CreateIndexIfNotExists(view.db, i))
                  /\ pc' = next
                  /\ UNCHANGED <<pending, raised, faultsLeft>>
    /\ UNCHANGED <<out, table_count, record_count, connFile, envFile, vizDir,
                   canOpen, run, prev>>

CreateIdxCreatedAt ==
    CreateIndex("create_idx_created_at", "idx_thoughts_created_at",
                "create_idx_user_created")

CreateIdxUserCreated ==
    CreateIndex("create_idx_user_created", "idx_thoughts_user_created", "seed1")

----------------------------------------------------------------------------
\* _seed_app_info, lines 70-87: four INSERT OR REPLACE statements

SeedPc == <<"seed1", "seed2", "seed3", "seed4">>

Seed(i) ==
    /\ pc = SeedPc[i]
    /\ \E fault \in FaultChoices :
          IF SqlRaises(fault, view.db.cols["app_info"] = "none")
             THEN /\ RaiseInTry(SeedPc[i], fault)
                  /\ UNCHANGED <<disk, view, inTxn>>
             ELSE /\ Execute("dml", [view.db EXCEPT
                         !.app_info = InsertOrReplace(@, SeedRows[i], run)])
                  /\ pc' = IF i < 4 THEN SeedPc[i + 1] ELSE "commit"
                  /\ UNCHANGED <<pending, raised, faultsLeft>>
    /\ UNCHANGED <<out, table_count, record_count, connFile, envFile, vizDir,
                   canOpen, run, prev>>

SeedAppInfo == \E i \in 1..4 : Seed(i)

----------------------------------------------------------------------------
\* main(), lines 147-165: commit and verification

\* conn.commit(): what the transaction holds becomes the file's content.
Commit ==
    /\ pc = "commit"
    /\ \E fault \in FaultChoices :
          IF SqlRaises(fault, FALSE)
             THEN /\ RaiseInTry("commit", fault)
                  /\ UNCHANGED <<disk, inTxn>>
             ELSE /\ disk' = [disk EXCEPT !.db = view.db]
                  /\ inTxn' = FALSE
                  /\ pc' = "verify_thoughts"
                  /\ UNCHANGED <<pending, raised, faultsLeft>>
    /\ UNCHANGED <<view, out, table_count, record_count, connFile, envFile,
                   vizDir, canOpen, run, prev>>

\* _verify_thoughts_table is called in the try block, under no except clause.
VerifyThoughts ==
    /\ pc = "verify_thoughts"
    /\ \E fault \in FaultChoices :
          IF SqlRaises(fault, FALSE)
             THEN /\ RaiseInTry("verify_thoughts", fault)
                  /\ UNCHANGED out
             ELSE /\ Emit(IF VerifyThoughtsTable(view.db)
                             THEN <<"Verified: 'thoughts' table is present.">>
                             ELSE <<"Error: 'thoughts' table verification failed.">>)
                  /\ pc' = "verify_indexes"
                  /\ UNCHANGED <<pending, raised, faultsLeft>>
    /\ UNCHANGED <<disk, view, inTxn, table_count, record_count, connFile,
                   envFile, vizDir, canOpen, run, prev>>

\* The index query has its own try/except: its error is caught there.
\* Faulty variant: the index query without its try/except.
IndexVerifyUncaught(failed) == failed

IndexVerifyPropagates(failed) == FALSE

IndexLines(idxs) ==
    (IF "idx_thoughts_created_at" \in idxs
        THEN <<"Index ready: idx_thoughts_created_at">> ELSE <<>>) \o
    (IF "idx_thoughts_user_created" \in idxs
        THEN <<"Index ready: idx_thoughts_user_created">> ELSE <<>>)

VerifyIndexes ==
    /\ pc = "verify_indexes"
    /\ \E fault \in FaultChoices :
          LET failed == SqlRaises(fault, FALSE) IN
          /\ faultsLeft' = Spend(fault)
          /\ raised' = IF failed THEN raised \cup {"verify_indexes"} ELSE raised
          /\ pending' = (pending \/ IndexVerifyPropagates(failed))
          /\ Emit(IF failed
                     THEN <<"Note: Skipped index verification (non-fatal).">>
                     ELSE IndexLines(view.db.idx \cap IndexNames))
    /\ pc' = "count_tables"
    /\ UNCHANGED <<disk, view, inTxn, table_count, record_count, connFile,
                   envFile, vizDir, canOpen, run, prev>>

----------------------------------------------------------------------------
\* main(), lines 166-178: the finally block

CountOnError == 0

\* An error of a statistics query is caught by its own except clause.
\* Faulty variant: a statistics query without its try/except.
StatsUncaught(failed) == failed

StatsPropagates(failed) == FALSE

GatherTableCount ==
    /\ pc = "count_tables"
    /\ \E fault \in FaultChoices :
          LET failed == SqlRaises(fault, FALSE) IN
          /\ faultsLeft' = Spend(fault)
          /\ raised' = IF failed THEN raised \cup {"count_tables"} ELSE raised
          /\ pending' = (pending \/ StatsPropagates(failed))
          /\ table_count' = IF failed THEN CountOnError ELSE CountTables(view.db)
    /\ pc' = "count_app_info"
    /\ UNCHANGED <<disk, view, inTxn, out, record_count, connFile, envFile,
                   vizDir, canOpen, run, prev>>

GatherRecordCount ==
    /\ pc = "count_app_info"
    /\ \E fault \in FaultChoices :
          LET failed == SqlRaises(fault, CountAppInfoRaises(view.db)) IN
          /\ faultsLeft' = Spend(fault)
          /\ raised' = IF failed THEN raised \cup {"count_app_info"} ELSE raised
          /\ pending' = (pending \/ StatsPropagates(failed))
          /\ record_count' = IF failed THEN CountOnError ELSE CountAppInfo(view.db)
    /\ pc' = "close"
    /\ UNCHANGED <<disk, view, inTxn, out, table_count, connFile, envFile,
                   vizDir, canOpen, run, prev>>

\* After the finally block a propagating exception leaves main().
AfterFinally(exc) == IF exc THEN "aborted" ELSE "write_connection_info"

\* conn.close(): an open transaction is rolled back.
CloseConn ==
    /\ pc = "close"
    /\ view' = Closed
    /\ inTxn' = FALSE
    /\ pc' = AfterFinally(pending)
    /\ UNCHANGED <<disk, pending, raised, out, table_count, record_count,
                   connFile, envFile, vizDir, canOpen, faultsLeft, run, prev>>

----------------------------------------------------------------------------
\* _write_connection_info, lines 90-101

\* open() and the writes are inside try/except Exception.
WriteConnectionInfo ==
    /\ pc = "write_connection_info"
    /\ \E fault \in FaultChoices :
          /\ faultsLeft' = Spend(fault)
          /\ raised' = IF fault THEN raised \cup {"write_connection_info"} ELSE raised
          /\ connFile' = IF fault THEN connFile ELSE FileWritten(DbAbsPath, run)
          /\ Emit(IF fault
                     THEN <<"Warning: Could not save connection info">>
                     ELSE <<"Connection information saved to db_connection.txt">>)
    /\ pc' = "write_visualizer_env"
    /\ UNCHANGED <<disk, view, inTxn, pending, table_count, record_count,
                   envFile, vizDir, canOpen, run, prev>>

----------------------------------------------------------------------------
\* _write_visualizer_env, lines 104-114

\* os.makedirs is called before the try statement, when os.path.exists says
\* there is no db_visualizer: its error leaves the function and main().
VisualizerFaults ==
    {"none"} \cup (IF faultsLeft > 0
                      THEN {"open"} \cup (IF vizDir = "absent" THEN {"makedirs"} ELSE {})
                      ELSE {})

WriteVisualizerEnv ==
    /\ pc = "write_visualizer_env"
    /\ \E fault \in VisualizerFaults :
          /\ faultsLeft' = Spend(fault # "none")
          /\ raised' = IF fault = "none" THEN raised ELSE raised \cup {fault}
          /\ vizDir' = IF fault = "makedirs" THEN vizDir ELSE "dir"
          /\ envFile' = IF fault = "none" THEN FileWritten(DbAbsPath, run) ELSE envFile
          /\ pc' = IF fault = "makedirs" THEN "aborted" ELSE "report"
          /\ Emit((IF vizDir = "absent" /\ fault # "makedirs"
                      THEN <<"Created db_visualizer directory">> ELSE <<>>) \o
                  (IF fault = "none"
                      THEN <<"Environment variables saved to db_visualizer/sqlite.env">>
                      ELSE IF fault = "open"
                      THEN <<"Warning: Could not save environment variables">>
                      ELSE <<>>))
    /\ UNCHANGED <<disk, view, inTxn, pending, table_count, record_count,
                   connFile, canOpen, run, prev>>

----------------------------------------------------------------------------
\* main(), lines 185-215: the summary

Report ==
    /\ pc = "report"
    /\ \E cli \in BOOLEAN :
          Emit(<<"SQLite setup complete!", "Database statistics:">> \o
               (IF cli THEN <<"SQLite CLI is available.">> ELSE <<>>) \o
               <<"Script completed successfully.">>)
    /\ pc' = "done"
    /\ UNCHANGED <<disk, view, inTxn, pending, raised, table_count, record_count,
                   connFile, envFile, vizDir, canOpen, faultsLeft, run, prev>>

----------------------------------------------------------------------------
\* The script is run again (lines 218-219), the working directory as it was
\* left: a new process, with no local state of the earlier one.  Whether the
\* database file can be opened may have changed in between (the directory
\* made read-only, or writable again).

NextRun ==
    /\ pc \in {"done", "aborted"}
    /\ run < MaxRuns
    /\ prev' = [outcome |-> pc, db |-> disk.db, faults |-> faultsLeft,
                clean |-> (faultsLeft = prev.faults /\ canOpen)]
    /\ canOpen' \in BOOLEAN
    /\ run' = run + 1
    /\ pc' = "start"
    /\ pending' = FALSE
    /\ raised' = {}
    /\ out' = <<>>
    /\ table_count' = Unset
    /\ record_count' = Unset
    /\ UNCHANGED <<disk, view, inTxn, connFile, envFile, vizDir, faultsLeft>>

----------------------------------------------------------------------------

Next ==
    \/ CheckExisting
    \/ EnsureConn
    \/ CreateThoughts
    \/ CreateAppInfo
    \/ CreateUsers
    \/ CreateIdxCreatedAt
    \/ CreateIdxUserCreated
    \/ SeedAppInfo
    \/ Commit
    \/ VerifyThoughts
    \/ VerifyIndexes
    \/ GatherTableCount
    \/ GatherRecordCount
    \/ CloseConn
    \/ WriteConnectionInfo
    \/ WriteVisualizerEnv
    \/ Report
    \/ NextRun

Spec == Init /\ [][Next]_vars

----------------------------------------------------------------------------
\* Vocabulary of the properties

Finished == pc \in {"done", "aborted"}

Lines == {out[i] : i \in 1..Len(out)}

Success == "Script completed successfully." \in Lines

\* No environment fault has hit the current run.
CleanRun == faultsLeft = prev.faults

TrySteps ==
    {"create_thoughts", "create_app_info", "create_users",
     "create_idx_created_at", "create_idx_user_created",
     "seed1", "seed2", "seed3", "seed4", "commit", "verify_thoughts"}

StatsSteps == {"count_tables", "count_app_info"}

SideFileSteps == {"write_connection_info", "open", "makedirs"}

\* A row without its timestamp.
Plain(rows) == {[id |-> r.id, key |-> r.key, value |-> r.value] : r \in rows}

SeedSet == {SeedRows[i] : i \in 1..4}

\* Schema and content of a database, timestamps left out.
Content(db) ==
    [cols |-> db.cols, idx |-> db.idx, app_info |-> Plain(db.app_info),
     thoughts |-> db.thoughts, users |-> db.users]

HasSchema(db) ==
    /\ \A t \in TableNames : db.cols[t] # "none"
    /\ IndexNames \subseteq db.idx

\* The side-file step of this run was reached.
ReachedSideFiles ==
    connFile.mtime = run \/ "write_connection_info" \in raised

WroteSideFile == connFile.mtime = run \/ envFile.mtime = run

----------------------------------------------------------------------------
----------------------------------------------------------------------------
\* C2. After a run that completed, whatever number of runs came before it,
\* app_info holds exactly four rows and their keys are project_name,
\* version, author and description.
C2_FourRows ==
    pc = "done" =>
        /\ Cardinality(disk.db.app_info) = 4
        /\ {r.key : r \in disk.db.app_info} = SeedKeys
        /\ {r.id : r \in disk.db.app_info} = 1..4

\* A run that completed on a file whose app_info held a row with a key other
\* than the seed of its id.
C2_Witness ==
    /\ pc = "done"
    /\ \E r \in prev.db.app_info : r.key # SeedRows[r.id].key

----------------------------------------------------------------------------
\* C3. After a run that completed, the file holds the tables thoughts,
\* app_info and users and both indexes, whether they were there before the
\* run or not.
C3_SchemaPresent == pc = "done" => HasSchema(disk.db)

\* A run that completed on a file that had one of the tables and one of the
\* indexes, and lacked the others.
C3_Witness ==
    /\ pc = "done"
    /\ prev.db.cols["thoughts"] = "std" /\ prev.db.cols["users"] = "none"
    /\ prev.db.idx = {"idx_thoughts_user_created"}

----------------------------------------------------------------------------
\* C4. For each prior state of the database file (absent; present and
\* valid, thoughts having its created_at column; present, corrupted but
\* openable), a run that no environment fault hits completes its whole
\* sequence and reports the thoughts table as verified present.
C4_RunCompletes ==
    (Finished /\ canOpen /\ CleanRun /\ prev.db.cols["thoughts"] # "nocol") =>
        /\ pc = "done"
        /\ "Verified: 'thoughts' table is present." \in Lines

----------------------------------------------------------------------------
\* C5. When the database file cannot be opened or created, the run aborts
\* with the error of the connection: it prints no success message and writes
\* neither side file.
C5_UnopenableAborts ==
    (~canOpen \/ "connect" \in raised) =>
        /\ ~Success
        /\ ~WroteSideFile
        /\ pc \notin {"start", "connect"} => pc = "aborted" /\ "connect" \in raised

\* The directory was made read-only after a run that completed: the side
\* files of that run are there, and this run has aborted.
C5_Witness ==
    /\ ~canOpen /\ pc = "aborted"
    /\ prev.outcome = "done" /\ connFile.mtime = run - 1

----------------------------------------------------------------------------
\* C6. A failure while persisting a side file (the connection-info file, or
\* the visualizer environment file, the creation of its directory included)
\* is never fatal: a run in which nothing else failed reaches the final
\* success message.
C6_SideFileFailureNotFatal ==
    (Finished /\ raised # {} /\ raised \subseteq SideFileSteps) =>
        pc = "done" /\ Success

----------------------------------------------------------------------------
\* C7 (as claimed). Once the commit has succeeded, a failure of the
\* verification step, an error raised by either catalog query included, is
\* only reported: the run writes the side files and reports success.
C7_VerificationNeverFatal ==
    (Finished /\ raised # {} /\ raised \subseteq {"verify_thoughts", "verify_indexes"}) =>
        pc = "done" /\ connFile.mtime = run /\ envFile.mtime = run

\* C7 (amended). Once the commit has succeeded, an error raised by the index
\* catalog query is only reported and the run goes on to the side-file
\* writes; an error raised by the thoughts catalog query propagates: after
\* the statistics and the close the run aborts, with no side file written
\* and no success message.  In both cases what was committed stays.
C7_IndexVerificationNotFatal ==
    /\ "verify_indexes" \in raised =>
          /\ "Note: Skipped index verification (non-fatal)." \in Lines
          /\ Finished => ReachedSideFiles
    /\ "verify_thoughts" \in raised =>
          /\ pc \in {"count_tables", "count_app_info", "close", "aborted"}
          /\ ~WroteSideFile /\ ~Success
    /\ raised \cap {"verify_thoughts", "verify_indexes"} # {} =>
          HasSchema(disk.db) /\ Plain(disk.db.app_info) = SeedSet

C7_Witness ==
    /\ pc = "done" /\ "verify_indexes" \in raised
    /\ connFile.mtime = run /\ envFile.mtime = run

----------------------------------------------------------------------------
\* The four seed rows as a run inserts them.
SeededRows(now) ==
    {[id |-> SeedRows[i].id, key |-> SeedRows[i].key,
      value |-> SeedRows[i].value, created_at |-> now] : i \in 1..4}

Complete(db) == HasSchema(db) /\ db.app_info = SeededRows(run)

\* C8 (as claimed). The DDL and the four seed upserts become durable as one
\* unit: the file holds either what it held when the run started, or all of
\* them.
C8_OneUnit == disk.db = prev.db \/ Complete(disk.db)

\* C8 (amended). The four seed upserts become durable as one unit, at the
\* commit: the file holds the app_info rows it held when the run started or
\* the four seed rows of this run, also when the run fails part-way.  Each
\* DDL statement is durable by itself as soon as it has executed.  When the
\* verification reads, all of them are in the file.
C8_SeedsOneUnit ==
    /\ disk.db.app_info = prev.db.app_info \/ disk.db.app_info = SeededRows(run)
    /\ (view.open /\ ~inTxn) => view.db = disk.db
    /\ inTxn => (view.db.cols = disk.db.cols /\ view.db.idx = disk.db.idx)
    /\ pc \in {"verify_thoughts", "verify_indexes"} =>
          Complete(disk.db) /\ ~inTxn

\* A run that created tables and failed part-way through the seeding: the
\* tables are in the file, none of its seed rows is.
C8_Witness ==
    /\ pc = "aborted" /\ raised \cap {"seed2", "seed3", "seed4"} # {}
    /\ disk.db.cols # prev.db.cols
    /\ disk.db.app_info = prev.db.app_info

----------------------------------------------------------------------------
\* C9. Frame: a run changes no row of thoughts or of users, and leaves the
\* column definitions of every table that existed when it started as they
\* were, in the file and in the connection's view of it.
FrameOf(db) ==
    /\ db.thoughts = prev.db.thoughts
    /\ db.users = prev.db.users
    /\ \A t \in TableNames : prev.db.cols[t] # "none" => db.cols[t] = prev.db.cols[t]

C9_Frame == FrameOf(disk.db) /\ (view.open => FrameOf(view.db))

\* A run that completed on a file with rows in thoughts and users and with
\* drifted column definitions.
C9_Witness ==
    /\ pc = "done"
    /\ prev.db.thoughts # {} /\ prev.db.users # {}
    /\ prev.db.cols["users"] = "extra" /\ prev.db.cols["app_info"] = "extra"

----------------------------------------------------------------------------
StatsFailed == raised \cap StatsSteps # {}

\* C10 (as claimed). A failure of a statistics query does not abort: the
\* run goes on to the side-file writes and the summary (stated here for the
\* runs on a file that is a database).
C10_StatsFailureRunGoesOn ==
    (StatsFailed /\ Finished /\ disk.file = "valid") => pc = "done"

\* C10 (amended). A failure of a statistics query sets that count to zero
\* and is not itself fatal: the other count is still attempted and the
\* connection is closed.  The run then goes on to the side-file writes,
\* unless a statement of the try block had raised: that exception is
\* re-raised after the close, and the run aborts with no side file written.
C10_StatsFailureCaught ==
    /\ "count_tables" \in raised =>
          /\ table_count = CountOnError
          /\ pc # "count_app_info" => record_count # Unset
    /\ "count_app_info" \in raised =>
          record_count = CountOnError /\ table_count # Unset
    /\ (StatsFailed /\ pc \notin {"count_app_info", "close"}) => ~view.open
    /\ (StatsFailed /\ Finished) =>
          IF raised \cap TrySteps = {}
             THEN ReachedSideFiles
             ELSE pc = "aborted" /\ ~WroteSideFile /\ ~Success

C10_Witness ==
    /\ pc = "done" /\ "count_app_info" \in raised
    /\ record_count = 0 /\ table_count = 3

====
